---- MODULE Spec2Model ----
(***************************************************************************)
(* A model of the entry loader of pressure (src/src/core.rs) and of the    *)
(* index-page handler built on it (src/src/web.rs).                        *)
(*                                                                         *)
(* Strings the program takes apart (file names, path components, date      *)
(* strings, slugs) are sequences of one-character strings.  A line of a    *)
(* file is an opaque string: the program only compares a line with "---",  *)
(* joins lines and hands them to the YAML loader or the Markdown renderer. *)
(* Option<T> is <<>> (None) or <<x>> (Some(x)).                            *)
(***************************************************************************)
EXTENDS Integers, Sequences, FiniteSets, TLC

VARIABLES fs, config, ret

vars == <<fs, config, ret>>

-----------------------------------------------------------------------------
(* Bounds of the model.                                                    *)

\* how many of the candidate post files a posts folder holds
MaxPosts == 3
\* the largest posts_per_index_page the configuration is drawn from
MaxPerPage == 2
\* the largest page number a request asks for
MaxPageNum == 3
\* the most lines of a file whose text is drawn line by line
MaxLines == 4
\* the most "key: value" lines of a front-matter block drawn key by key
MaxKeys == 2
\* how many times canonicalize_meta is applied to one entry
MaxApply == 2

-----------------------------------------------------------------------------
(* Option, characters and numbers.                                         *)

\* let x = v; F(x): the value v is computed once and then named
With(v, F(_)) == CHOOSE r \in {F(x) : x \in {v}} : TRUE

None == <<>>
Some(x) == <<x>>
IsSome(o) == Len(o) = 1
Unwrap(o) == o[1]

AsciiDigit == {"0", "1", "2", "3", "4", "5", "6", "7", "8", "9"}

\* A decimal digit outside ASCII (ARABIC-INDIC DIGIT THREE), which the regex
\* class \d matches and str::parse::<u16>() rejects.
UnicodeDigit == {"U+0663"}

DigitVal(c) ==
    CASE c = "0" -> 0 [] c = "1" -> 1 [] c = "2" -> 2 [] c = "3" -> 3
      [] c = "4" -> 4 [] c = "5" -> 5 [] c = "6" -> 6 [] c = "7" -> 7
      [] c = "8" -> 8 [] c = "9" -> 9

DigitChar(n) ==
    CASE n = 0 -> "0" [] n = 1 -> "1" [] n = 2 -> "2" [] n = 3 -> "3"
      [] n = 4 -> "4" [] n = 5 -> "5" [] n = 6 -> "6" [] n = 7 -> "7"
      [] n = 8 -> "8" [] n = 9 -> "9"

RECURSIVE Digits(_)
\* the decimal digits of n, without padding
Digits(n) == IF n < 10 THEN <<DigitChar(n)>>
             ELSE Append(Digits(n \div 10), DigitChar(n % 10))

RECURSIVE Zeros(_)
Zeros(k) == IF k <= 0 THEN <<>> ELSE <<"0">> \o Zeros(k - 1)

\* format!("{:0w}", n): zero-padded to at least w digits, never truncated
Pad(n, w) == Zeros(w - Len(Digits(n))) \o Digits(n)

RECURSIVE NumVal(_)
\* the value of a sequence of ASCII digits
NumVal(s) == IF s = <<>> THEN 0
             ELSE 10 * NumVal(SubSeq(s, 1, Len(s) - 1)) + DigitVal(s[Len(s)])

\* str::parse::<u16>() / parse::<u8>(): Some(value), or None (an Err) when a
\* character is no ASCII digit
ParseInt(s) == IF \A i \in 1..Len(s) : s[i] \in AsciiDigit
               THEN Some(NumVal(s)) ELSE None

\* name.split("-").collect::<Vec<&str>>().join(" ")
DashesToSpaces(s) == [i \in 1..Len(s) |-> IF s[i] = "-" THEN " " ELSE s[i]]

-----------------------------------------------------------------------------
(* chrono: calendar dates, parsing and formatting.  A NaiveDateTime is the *)
(* tuple <<year, month, day, hour, minute, second>>.                       *)

IsLeap(y) == (y % 4 = 0 /\ y % 100 # 0) \/ y % 400 = 0

DaysInMonth(y, m) ==
    IF m = 2 THEN (IF IsLeap(y) THEN 29 ELSE 28)
    ELSE IF m \in {4, 6, 9, 11} THEN 30 ELSE 31

\* NaiveDate::from_ymd_opt(y, m, d).is_some()
ValidDate(y, m, d) == m \in 1..12 /\ d >= 1 /\ d <= DaysInMonth(y, m)

\* NaiveDate::and_hms(0, 0, 0)
Midnight(y, m, d) == <<y, m, d, 0, 0, 0>>

\* Ord for NaiveDateTime: lexicographic on the fields
RECURSIVE TsLessFrom(_, _, _)
TsLessFrom(a, b, i) ==
    IF i > 6 THEN FALSE
    ELSE IF a[i] # b[i] THEN a[i] < b[i]
    ELSE TsLessFrom(a, b, i + 1)

TsLess(a, b) == TsLessFrom(a, b, 1)

\* created.format("%Y-%m-%d %H:%M:%S")
FormatTs(t) ==
    Pad(t[1], 4) \o <<"-">> \o Pad(t[2], 2) \o <<"-">> \o Pad(t[3], 2) \o <<" ">>
      \o Pad(t[4], 2) \o <<":">> \o Pad(t[5], 2) \o <<":">> \o Pad(t[6], 2)

Rest(s, n) == SubSeq(s, n + 1, Len(s))

RECURSIVE TrimLeft(_)
\* str::trim_left
TrimLeft(s) == IF s # <<>> /\ s[1] = " " THEN TrimLeft(Tail(s)) ELSE s

RECURSIVE DigitRun(_, _)
\* how many of the first `max` characters of s are ASCII digits
DigitRun(s, max) ==
    IF max = 0 \/ s = <<>> \/ s[1] \notin AsciiDigit THEN 0
    ELSE 1 + DigitRun(Tail(s), max - 1)

\* chrono::format::parse keeps what it has parsed and what is left of the
\* input: [ok, vals, rest].  It accepts an optional sign before the year,
\* which no string of the model carries.
StartParse(s) == [ok |-> TRUE, vals |-> <<>>, rest |-> s]

\* a numeric item of the given width: leading white space is skipped, then
\* 1..width digits are taken
ScanNum(st, width) ==
    IF ~st.ok THEN st
    ELSE With(TrimLeft(st.rest), LAMBDA t :
         With(DigitRun(t, width), LAMBDA n :
         IF n = 0 THEN [st EXCEPT !.ok = FALSE]
         ELSE [ok |-> TRUE, vals |-> Append(st.vals, NumVal(SubSeq(t, 1, n))),
               rest |-> Rest(t, n)]))

\* a literal item
ScanLit(st, c) ==
    IF ~st.ok THEN st
    ELSE IF st.rest # <<>> /\ st.rest[1] = c THEN [st EXCEPT !.rest = Tail(st.rest)]
    ELSE [st EXCEPT !.ok = FALSE]

\* a white-space item: any white space, also none
ScanSpace(st) == IF ~st.ok THEN st ELSE [st EXCEPT !.rest = TrimLeft(st.rest)]

\* the items of "%Y-%m-%d"
ScanDate(st) ==
    With(ScanNum(st, 4), LAMBDA y :
    With(ScanLit(y, "-"), LAMBDA l1 :
    With(ScanNum(l1, 2), LAMBDA m :
    With(ScanLit(m, "-"), LAMBDA l2 :
    ScanNum(l2, 2)))))

\* the items of " %H:%M:%S"
ScanTime(st) ==
    With(ScanSpace(st), LAMBDA sp :
    With(ScanNum(sp, 2), LAMBDA h :
    With(ScanLit(h, ":"), LAMBDA l1 :
    With(ScanNum(l1, 2), LAMBDA mi :
    With(ScanLit(mi, ":"), LAMBDA l2 :
    ScanNum(l2, 2))))))

\* NaiveDate::parse_from_str(s, "%Y-%m-%d") and and_hms(0, 0, 0): all of the
\* input must be used and the date must exist
ParseDate(s) ==
    With(ScanDate(StartParse(s)), LAMBDA p :
        IF p.ok /\ p.rest = <<>> /\ ValidDate(p.vals[1], p.vals[2], p.vals[3])
        THEN Some(Midnight(p.vals[1], p.vals[2], p.vals[3]))
        ELSE None)

\* NaiveDateTime::parse_from_str(s, "%Y-%m-%d %H:%M:%S"); second 60 is a
\* leap second
ParseDateTime(s) ==
    With(ScanTime(ScanDate(StartParse(s))), LAMBDA p :
        IF /\ p.ok /\ p.rest = <<>>
           /\ ValidDate(p.vals[1], p.vals[2], p.vals[3])
           /\ p.vals[4] <= 23 /\ p.vals[5] <= 59 /\ p.vals[6] <= 60
        THEN Some(p.vals)
        ELSE None)

-----------------------------------------------------------------------------
(* yaml_rust::Yaml.  A value is [t |-> variant, v |-> payload].  A Hash is  *)
(* a LinkedHashMap: a sequence of <<key, value>> pairs in insertion order, *)
(* and two Hashes are equal when they hold the same pairs in the same      *)
(* order.  Keys are the literal key strings.                               *)

YString(s) == [t |-> "String", v |-> s]
YArray(a) == [t |-> "Array", v |-> a]
YInteger(n) == [t |-> "Integer", v |-> n]
YNull == [t |-> "Null", v |-> <<>>]
YHash(pairs) == [t |-> "Hash", v |-> pairs]

\* yaml::Hash::new()
EmptyHash == YHash(<<>>)

\* the position of key k in the pairs of a Hash, 0 when it is absent
KeyPos(pairs, k) ==
    IF \E i \in 1..Len(pairs) : pairs[i][1] = k
    THEN CHOOSE i \in 1..Len(pairs) : pairs[i][1] = k
    ELSE 0

\* meta.get(key) / meta.get_mut(key)
Get(meta, k) ==
    IF meta.t # "Hash" THEN None
    ELSE With(KeyPos(meta.v, k), LAMBDA i :
         IF i # 0 THEN Some(meta.v[i][2]) ELSE None)

\* writing through the reference get_mut returned: the pair keeps its place
SetInPlace(meta, k, val) ==
    YHash([meta.v EXCEPT ![KeyPos(meta.v, k)] = <<k, val>>])

\* the pairs without the one at position i
RemoveAt(pairs, i) == SubSeq(pairs, 1, i - 1) \o SubSeq(pairs, i + 1, Len(pairs))

\* LinkedHashMap::insert: a new key goes to the back; an existing key gets
\* the new value and moves to the back
Insert(meta, k, val) ==
    With(KeyPos(meta.v, k), LAMBDA i :
        IF i = 0 THEN YHash(Append(meta.v, <<k, val>>))
        ELSE YHash(Append(RemoveAt(meta.v, i), <<k, val>>)))

-----------------------------------------------------------------------------
(* String values that occur in the files of the model.                     *)

S_foo == <<"f", "o", "o">>
S_bar == <<"b", "a", "r">>
S_Dev == <<"D", "e", "v">>
S_dev == <<"d", "e", "v">>
S_Title == <<"F", "o", "o", " ", "b", "a", "r">>
S_tomorrow == <<"t", "o", "m", "o", "r", "r", "o", "w">>
S_soon == <<"s", "o", "o", "n">>
S_text == <<"j", "u", "s", "t", " ", "t", "e", "x", "t">>
S_item == <<"i", "t", "e", "m">>
S_date1 == <<"2", "0", "2", "0", "-", "0", "8", "-", "3", "1">>
S_date2 == <<"2", "0", "2", "1", "-", "0", "3", "-", "0", "5">>
S_datetime1 == <<"2", "0", "2", "1", "-", "0", "3", "-", "0", "4", " ",
                 "1", "0", ":", "2", "0", ":", "3", "0">>
S_baddate == <<"2", "0", "2", "1", "-", "0", "2", "-", "3", "0">>
S_short == <<"2", "0", "2", "1", "-", "3", "-", "4", " ", "5", ":", "6", ":", "7">>

-----------------------------------------------------------------------------
(* YamlLoader::load_from_str on the front-matter blocks of the model.  The *)
(* loader is a library; it is modelled on a vocabulary of lines.           *)

\* a "key: value" line of a block mapping, as <<key, value>>
YamlPair(line) ==
    CASE line = "title: Foo bar" -> <<"title", YString(S_Title)>>
      [] line = "tags: foo" -> <<"tags", YString(S_foo)>>
      [] line = "tags: [foo, bar]" -> <<"tags", YArray(<<YString(S_foo), YString(S_bar)>>)>>
      [] line = "tags: 5" -> <<"tags", YInteger(5)>>
      [] line = "tags:" -> <<"tags", YNull>>
      [] line = "categories: Dev" -> <<"categories", YString(S_Dev)>>
      [] line = "categories: [dev, foo]" ->
             <<"categories", YArray(<<YString(S_dev), YString(S_foo)>>)>>
      [] line = "categories: {a: 5}" ->
             <<"categories", YHash(<< <<"a", YInteger(5)>> >>)>>
      [] line = "created: 2020-08-31" -> <<"created", YString(S_date1)>>
      [] line = "created: 2021-03-04 10:20:30" -> <<"created", YString(S_datetime1)>>
      [] line = "created: 2021-3-4 5:6:7" -> <<"created", YString(S_short)>>
      [] line = "created: tomorrow" -> <<"created", YString(S_tomorrow)>>
      [] line = "created: 2021-02-30" -> <<"created", YString(S_baddate)>>
      [] line = "created: 5" -> <<"created", YInteger(5)>>
      [] line = "updated: 2021-03-05" -> <<"updated", YString(S_date2)>>
      [] line = "updated: 2021-03-04 10:20:30" -> <<"updated", YString(S_datetime1)>>
      [] line = "updated: soon" -> <<"updated", YString(S_soon)>>
      [] line = "updated: 5" -> <<"updated", YInteger(5)>>

PairLines ==
    {"title: Foo bar", "tags: foo", "tags: [foo, bar]", "tags: 5", "tags:",
     "categories: Dev", "categories: [dev, foo]", "categories: {a: 5}",
     "created: 2020-08-31", "created: 2021-03-04 10:20:30",
     "created: 2021-3-4 5:6:7", "created: tomorrow", "created: 2021-02-30",
     "created: 5", "updated: 2021-03-05", "updated: 2021-03-04 10:20:30",
     "updated: soon", "updated: 5"}

\* lines that leave the document stream empty
BlankLines == {"", "  ", "# comment"}

\* a line the scanner rejects
ScanErrorLines == {"key: [unclosed"}

\* lines that are plain text or a block-sequence entry
OtherLines == {"just text", "- item"}

\* the document of lines of OtherLines: plain text that starts a document
\* takes the lines after it into one scalar, folded with spaces; lines that
\* are all sequence entries make an Array
YamlOther(real) ==
    IF real[1] = "just text"
    THEN LET txt(l) == IF l = "just text" THEN S_text ELSE <<"-", " ">> \o S_item
             fold[i \in 1..Len(real)] ==
                 IF i = 1 THEN txt(real[1]) ELSE fold[i - 1] \o <<" ">> \o txt(real[i])
         IN  YString(fold[Len(real)])
    ELSE YArray([i \in 1..Len(real) |-> YString(S_item)])

RECURSIVE PairsOf(_)
\* the Hash the loader builds from "key: value" lines, inserted in order
PairsOf(ls) ==
    IF ls = <<>> THEN EmptyHash
    ELSE LET kv == YamlPair(ls[Len(ls)])
         IN  Insert(PairsOf(SubSeq(ls, 1, Len(ls) - 1)), kv[1], kv[2])

\* YamlLoader::load_from_str(&front_matter): [ok, docs]; docs is the Vec of
\* documents, empty when the block holds no document
YamlLoad(block) ==
    LET real == SelectSeq(block, LAMBDA l : l \notin BlankLines)
    IN  IF \E i \in 1..Len(block) : block[i] \in ScanErrorLines
        THEN [ok |-> FALSE, docs |-> <<>>]
        ELSE IF real = <<>> THEN [ok |-> TRUE, docs |-> <<>>]
        ELSE IF \A i \in 1..Len(real) : real[i] \in PairLines
        THEN [ok |-> TRUE, docs |-> <<PairsOf(real)>>]
        ELSE IF \/ real[1] = "just text" /\ \A i \in 1..Len(real) : real[i] \in OtherLines
                \/ \A i \in 1..Len(real) : real[i] = "- item"
        THEN [ok |-> TRUE, docs |-> <<YamlOther(real)>>]
        ELSE [ok |-> FALSE, docs |-> <<>>]

-----------------------------------------------------------------------------
(* PressResult<T> and a panic.  A result is [status, val, err]: status is  *)
(* "Ok" (val is the value), "Err" (err is the PressError message) or       *)
(* "Panic" (the call unwound; err names the panic).                        *)

Ok(v) == [status |-> "Ok", val |-> v, err |-> ""]
Err(e) == [status |-> "Err", val |-> <<>>, err |-> e]
Panic(e) == [status |-> "Panic", val |-> <<>>, err |-> e]

\* the message of a PressError made from a std::io::Error
IoError == "io::Error"
\* the message of a PressError made from a yaml_rust::ScanError
ScanError == "ScanError"
BadURL == "Bad URL"
BadPagePath == "Bad page path"
NotAHash == "Frontmatter must be a valid YAML hash map."

-----------------------------------------------------------------------------
(* std::path.  A path is [abs, comps]: whether it has a root, and its      *)
(* components, each a sequence of characters.  Path::components keeps a    *)
(* ".." component as it is.                                                *)

DotDot == <<".", ".">>
C_site == <<"s", "i", "t", "e">>
C_posts == <<"p", "o", "s", "t", "s">>
C_pages == <<"p", "a", "g", "e", "s">>
C_etc == <<"e", "t", "c">>
C_md == <<"m", "d">>
C_html == <<"h", "t", "m", "l">>
C_index_md == <<"i", "n", "d", "e", "x", ".", "m", "d">>

AbsPath(comps) == [abs |-> TRUE, comps |-> comps]
RelPath(comps) == [abs |-> FALSE, comps |-> comps]

\* Path::join / PathBuf::push: an absolute argument replaces the path
Join(base, rel) ==
    IF rel.abs THEN rel ELSE [abs |-> base.abs, comps |-> base.comps \o rel.comps]

\* Path::starts_with: whole components, compared as written
StartsWith(p, base) ==
    /\ p.abs = base.abs
    /\ Len(base.comps) <= Len(p.comps)
    /\ SubSeq(p.comps, 1, Len(base.comps)) = base.comps

\* Path::file_name: the last component, unless it is ".."
FileName(p) ==
    IF p.comps # <<>> /\ p.comps[Len(p.comps)] # DotDot
    THEN Some(p.comps[Len(p.comps)])
    ELSE None

\* the index of the last '.' of a file name, 0 when it has none
LastDot(name) ==
    IF \E i \in 1..Len(name) : name[i] = "."
    THEN CHOOSE i \in 1..Len(name) :
             name[i] = "." /\ \A j \in (i + 1)..Len(name) : name[j] # "."
    ELSE 0

\* Path::extension: what follows the last '.' of the file name; None when
\* there is no file name, no '.', or nothing before the only '.'
Extension(p) ==
    IF ~IsSome(FileName(p)) THEN None
    ELSE LET name == Unwrap(FileName(p))
         IN  IF LastDot(name) <= 1 THEN None
             ELSE Some(Rest(name, LastDot(name)))

\* Path::file_stem: the file name without its extension
FileStem(p) ==
    IF ~IsSome(FileName(p)) THEN None
    ELSE LET name == Unwrap(FileName(p))
         IN  IF LastDot(name) <= 1 THEN Some(name)
             ELSE Some(SubSeq(name, 1, LastDot(name) - 1))

\* Option<&OsStr>::unwrap_or_default()
UnwrapOrDefault(o) == IF IsSome(o) THEN Unwrap(o) ELSE <<>>

\* PathBuf::pop-then-push of a single relative component
ReplaceLast(p, name) ==
    [abs |-> p.abs, comps |-> SubSeq(p.comps, 1, Len(p.comps) - 1) \o <<name>>]

\* PathBuf::set_file_name
SetFileName(p, name) ==
    IF IsSome(FileName(p)) THEN ReplaceLast(p, name)
    ELSE [abs |-> p.abs, comps |-> Append(p.comps, name)]

\* PathBuf::set_extension(ext), ext not empty: no change without a file name
SetExtension(p, ext) ==
    IF ~IsSome(FileName(p)) THEN p
    ELSE ReplaceLast(p, Unwrap(FileStem(p)) \o <<".">> \o ext)

-----------------------------------------------------------------------------
(* The file system.  fs is a set of nodes [path, kind, lines]: path is the *)
(* canonical absolute component list, kind is "dir" or "file", lines is    *)
(* what str::lines yields for the file's text.  There are no symbolic      *)
(* links, so ".." names the parent of the directory reached so far.        *)

Dir(comps) == [path |-> comps, kind |-> "dir", lines |-> <<>>]
File(comps, lines) == [path |-> comps, kind |-> "file", lines |-> lines]

Exists(tree, comps) == \E n \in tree : n.path = comps
NodeAt(tree, comps) == CHOOSE n \in tree : n.path = comps
IsDirAt(tree, comps) == comps = <<>> \/ (Exists(tree, comps) /\ NodeAt(tree, comps).kind = "dir")

RECURSIVE ResolveFrom(_, _, _)
\* the walk the operating system makes: Some(canonical components) or None
ResolveFrom(tree, cur, comps) ==
    IF comps = <<>> THEN Some(cur)
    ELSE IF ~IsDirAt(tree, cur) THEN None
    ELSE IF comps[1] = DotDot
    THEN ResolveFrom(tree, SubSeq(cur, 1, Len(cur) - 1), Tail(comps))
    ELSE IF Exists(tree, Append(cur, comps[1]))
    THEN ResolveFrom(tree, Append(cur, comps[1]), Tail(comps))
    ELSE None

\* Path::canonicalize, of an absolute path
Canonicalize(tree, p) == ResolveFrom(tree, <<>>, p.comps)

\* Path::is_dir
IsDir(tree, p) ==
    /\ IsSome(Canonicalize(tree, p))
    /\ IsDirAt(tree, Unwrap(Canonicalize(tree, p)))

-----------------------------------------------------------------------------
(* Entry and load_entry.                                                   *)

\* Entry::default() with etype and filepath set
NewEntry(etype, filepath) ==
    [etype |-> etype, filepath |-> filepath, url |-> None, meta |-> EmptyHash,
     created |-> None, updated |-> None, content |-> <<>>]

\* lines that are only white space
WhiteLines == {"", "  "}

\* a line that is a link reference definition: it renders to nothing
RefDefLines == {"[ref]: http://example.com"}

RECURSIVE TrimLines(_)
\* str::trim on the joined lines: white space goes from both ends
TrimLines(ls) ==
    IF ls = <<>> THEN ls
    ELSE IF ls[1] \in WhiteLines THEN TrimLines(Tail(ls))
    ELSE IF ls[Len(ls)] \in WhiteLines THEN TrimLines(SubSeq(ls, 1, Len(ls) - 1))
    ELSE ls

\* markdown_to_html: the rendered blocks, one for each line that renders to
\* something; the empty string is <<>>
MarkdownToHtml(ls) == SelectSeq(ls, LAMBDA l : l \notin WhiteLines \cup RefDefLines)

Delim == "---"

\* the position of the last "---" instead of the first
DelimPos_Last(ls) ==
    IF \E i \in 1..Len(ls) : ls[i] = Delim
    THEN CHOOSE i \in 1..Len(ls) : ls[i] = Delim /\ \A j \in (i + 1)..Len(ls) : ls[j] # Delim
    ELSE 0

\* tmp_lines.iter().position(|&x| x == "---"), 1-based; 0 is None
DelimPos(ls) ==
    IF \E i \in 1..Len(ls) : ls[i] = Delim
    THEN CHOOSE i \in 1..Len(ls) : ls[i] = Delim /\ \A j \in 1..(i - 1) : ls[j] # Delim
    ELSE 0

\* a content that is rendered whatever meta_only says
ContentOf_Always(remained, meta_only) == MarkdownToHtml(TrimLines(remained))

\* the content load_entry stores for the remaining lines
ContentOf(remained, meta_only) ==
    IF ~meta_only THEN MarkdownToHtml(TrimLines(remained)) ELSE <<>>

\* load_entry once the front-matter block has been handed to the loader
EntryWithFrontMatter(entry, loaded, remained, meta_only) ==
    IF ~loaded.ok THEN Err(ScanError)
    ELSE IF loaded.docs = <<>> THEN Panic("index out of bounds")
    ELSE IF loaded.docs[1].t # "Hash" THEN Err(NotAHash)
    ELSE Ok([entry EXCEPT !.meta = loaded.docs[1],
                          !.content = ContentOf(remained, meta_only)])

\* load_entry once the file has been read
EntryOfLines(entry, lines, meta_only) ==
    IF Len(lines) = 0 THEN Ok(entry)
    ELSE IF lines[1] = Delim /\ DelimPos(Tail(lines)) # 0
    THEN With(DelimPos(Tail(lines)), LAMBDA fm_end :
            EntryWithFrontMatter(entry,
                                 YamlLoad(SubSeq(Tail(lines), 1, fm_end - 1)),
                                 Rest(Tail(lines), fm_end), meta_only))
    ELSE Ok([entry EXCEPT !.content = ContentOf(lines, meta_only)])

load_entry(tree, etype, filepath, meta_only) ==
    With(Canonicalize(tree, filepath), LAMBDA canon :
        IF ~IsSome(canon) THEN Err(IoError)
        ELSE IF IsDirAt(tree, Unwrap(canon)) THEN Err(IoError)
        ELSE EntryOfLines(NewEntry(etype, Unwrap(canon)),
                          NodeAt(tree, Unwrap(canon)).lines, meta_only))

-----------------------------------------------------------------------------
(* Entry::canonicalize_meta.  An entry's meta is a Hash here: load_entry   *)
(* returns no other.                                                       *)

\* EntryMetaDefaults
Defaults(title, created) == [title |-> title, created |-> created]

\* a round that wraps whatever value the key holds, an Array included
CanonArray_WrapAny(meta, key) ==
    With(Get(meta, key), LAMBDA val :
        IF IsSome(val)
        THEN SetInPlace(meta, key, YArray(<<Unwrap(val)>>))
        ELSE Insert(meta, key, YArray(<<>>)))

\* one round of the loop over "categories" and "tags"
CanonArray(meta, key) ==
    With(Get(meta, key), LAMBDA val :
        IF IsSome(val)
        THEN IF Unwrap(val).t = "String"
             THEN SetInPlace(meta, key, YArray(<<Unwrap(val)>>))
             ELSE meta
        ELSE Insert(meta, key, YArray(<<>>)))

\* "ensure categories and tags are arrays"
CanonArrays(entry) ==
    With(CanonArray(entry.meta, "categories"), LAMBDA m1 :
        [entry EXCEPT !.meta = CanonArray(m1, "tags")])

\* a title step that writes the default title over a title that is there
CanonTitle_Overwrite(entry, defaults) ==
    [entry EXCEPT !.meta =
        Insert(entry.meta, "title", YString(UnwrapOrDefault(defaults.title)))]

\* "insert default title"
CanonTitle(entry, defaults) ==
    IF ~IsSome(Get(entry.meta, "title"))
    THEN [entry EXCEPT !.meta =
             Insert(entry.meta, "title", YString(UnwrapOrDefault(defaults.title)))]
    ELSE entry

\* dt_str.push_str(" 00:00:00")
PushMidnight(dt_str) == dt_str \o <<" ", "0", "0", ":", "0", "0", ":", "0", "0">>

\* the body shared by "parse created datetime" and "parse updated
\* datetime" when the key holds the String dt_str: the entry with the field
\* `field` and the string under `key` as the three-way parse leaves them
CanonDateString(entry, key, field, dt_str) ==
    With(ParseDateTime(dt_str), LAMBDA dt :
    With(ParseDate(dt_str), LAMBDA d :
        IF IsSome(dt) THEN [entry EXCEPT ![field] = dt]
        ELSE IF IsSome(d)
        THEN [entry EXCEPT !.meta = SetInPlace(entry.meta, key, YString(PushMidnight(dt_str))),
                           ![field] = d]
        ELSE [entry EXCEPT !.meta = SetInPlace(entry.meta, key, YString(<<>>))]))

\* if let Some(Yaml::String(_)) = val
IsSomeString(val) == IsSome(val) /\ Unwrap(val).t = "String"

\* a default branch that writes the default string under "created" and
\* leaves the `created` field as it was
CanonCreated_FieldUnset(entry, defaults) ==
    With(Get(entry.meta, "created"), LAMBDA val :
        IF IsSomeString(val)
        THEN CanonDateString(entry, "created", "created", Unwrap(val).v)
        ELSE IF IsSome(defaults.created)
        THEN [entry EXCEPT
                 !.meta = Insert(entry.meta, "created",
                                 YString(FormatTs(Unwrap(defaults.created))))]
        ELSE [entry EXCEPT !.meta = Insert(entry.meta, "created", YString(<<>>))])

\* "parse created datetime"
CanonCreated(entry, defaults) ==
    With(Get(entry.meta, "created"), LAMBDA val :
        IF IsSomeString(val)
        THEN CanonDateString(entry, "created", "created", Unwrap(val).v)
        ELSE IF IsSome(defaults.created)
        THEN [entry EXCEPT
                 !.meta = Insert(entry.meta, "created",
                                 YString(FormatTs(Unwrap(defaults.created)))),
                 !.created = defaults.created]
        ELSE [entry EXCEPT !.meta = Insert(entry.meta, "created", YString(<<>>))])

\* "parse updated datetime": the last branch inserts under "created"
CanonUpdated(entry) ==
    With(Get(entry.meta, "updated"), LAMBDA val :
        IF IsSomeString(val)
        THEN CanonDateString(entry, "updated", "updated", Unwrap(val).v)
        ELSE [entry EXCEPT !.meta = Insert(entry.meta, "created", YString(<<>>))])

canonicalize_meta(entry, defaults) ==
    With(CanonArrays(entry), LAMBDA e1 :
    With(CanonTitle(e1, defaults), LAMBDA e2 :
    With(CanonCreated(e2, defaults), LAMBDA e3 :
    CanonUpdated(e3))))

-----------------------------------------------------------------------------
(* Instance: the folders, load_post and load_posts.                        *)

root_folder == AbsPath(<<C_site>>)
posts_folder == Join(root_folder, RelPath(<<C_posts>>))
pages_folder == Join(root_folder, RelPath(<<C_pages>>))

\* format!("{:04}-{:02}-{:02}-{}.md", year, month, day, name)
PostFileName(year, month, day, name) ==
    Pad(year, 4) \o <<"-">> \o Pad(month, 2) \o <<"-">> \o Pad(day, 2) \o <<"-">>
      \o name \o <<".", "m", "d">>

load_post(tree, year, month, day, name, meta_only) ==
    With(load_entry(tree, "Post",
                    Join(posts_folder, RelPath(<<PostFileName(year, month, day, name)>>)),
                    meta_only), LAMBDA post :
        IF post.status # "Ok" THEN post
        ELSE IF ~ValidDate(year, month, day) THEN Panic("invalid or out-of-range date")
        ELSE Ok(canonicalize_meta(post.val,
                    Defaults(Some(DashesToSpaces(name)), Some(Midnight(year, month, day))))))

\* the class \d of the regex crate: any Unicode decimal digit
RegexDigit == AsciiDigit \cup UnicodeDigit

\* POST_FILE_NAME_RE.captures(&filename).is_some(), for a name without a
\* line break: the pattern ends in ".md", whose '.' is any character
PostFileNameMatches(f) ==
    /\ Len(f) >= 15
    /\ \A i \in {1, 2, 3, 4, 6, 7, 9, 10} : f[i] \in RegexDigit
    /\ f[5] = "-" /\ f[8] = "-" /\ f[11] = "-"
    /\ f[Len(f) - 1] = "m" /\ f[Len(f)] = "d"

\* the groups year, month, day, name of the match
Captures(f) ==
    [year |-> SubSeq(f, 1, 4), month |-> SubSeq(f, 6, 7), day |-> SubSeq(f, 9, 10),
     name |-> SubSeq(f, 12, Len(f) - 3)]

\* the comparator of posts.sort_by, as written: "Less", "Equal", "Greater"
ComparePosts(p1, p2) ==
    IF ~IsSome(p1.created) /\ ~IsSome(p1.created) THEN "Equal"
    ELSE IF ~IsSome(p1.created) THEN "Less"
    ELSE IF ~IsSome(p2.created) THEN "Greater"
    ELSE IF TsLess(Unwrap(p2.created), Unwrap(p1.created)) THEN "Less"
    ELSE IF TsLess(Unwrap(p1.created), Unwrap(p2.created)) THEN "Greater"
    ELSE "Equal"

\* sort_by's is_less
IsLess(a, b) == ComparePosts(a, b) = "Less"

RECURSIVE LessRun(_, _, _)
\* how many elements of v, from index i on, are less than tmp in a row
LessRun(v, tmp, i) ==
    IF i > Len(v) \/ ~IsLess(v[i], tmp) THEN 0 ELSE 1 + LessRun(v, tmp, i + 1)

\* slice::sort's insert_head: v[2..] is sorted; v[1] moves right past the
\* elements less than it
InsertHead(v) ==
    IF Len(v) >= 2 /\ IsLess(v[2], v[1])
    THEN LET k == LessRun(v, v[1], 2)
         IN  SubSeq(v, 2, k + 1) \o <<v[1]>> \o SubSeq(v, k + 2, Len(v))
    ELSE v

RECURSIVE SortPosts(_)
\* posts.sort_by(..): the stable sort of a slice of at most 20 elements is
\* an insertion sort that inserts from the back
SortPosts(v) == IF Len(v) < 2 THEN v ELSE InsertHead(<<v[1]>> \o SortPosts(Tail(v)))

\* the file names fs::read_dir yields for the posts folder
PostsDir(tree) ==
    {n.path[Len(n.path)] : n \in {x \in tree :
        Len(x.path) = Len(posts_folder.comps) + 1
        /\ SubSeq(x.path, 1, Len(posts_folder.comps)) = posts_folder.comps}}

\* what the closure of filter_map makes of load_post(..).ok(): a result
\* whose value is <<>> (the entry is dropped) or <<post>>
Kept(post) ==
    IF post.status = "Panic" THEN post
    ELSE IF post.status = "Ok" THEN Ok(<<post.val>>)
    ELSE Ok(<<>>)

\* the closure of filter_map for one directory entry
ScanOne(tree, filename, meta_only) ==
    IF ~PostFileNameMatches(filename) THEN Ok(<<>>)
    ELSE With(Captures(filename), LAMBDA caps :
         IF \/ ~IsSome(ParseInt(caps.year))
            \/ ~IsSome(ParseInt(caps.month))
            \/ ~IsSome(ParseInt(caps.day))
         THEN Panic("unwrap on ParseIntError")
         ELSE With(load_post(tree, NumVal(caps.year), NumVal(caps.month),
                             NumVal(caps.day), caps.name, meta_only), Kept))

\* one result of the closure followed by the results of the later ones
ScanJoin(one, rest) ==
    IF one.status = "Panic" THEN one
    ELSE IF rest.status = "Panic" THEN rest
    ELSE Ok(one.val \o rest.val)

RECURSIVE ScanAll(_, _, _)
\* filter_map(..).collect() over the entries in the order read_dir gives
\* them: the posts kept, or the first panic
ScanAll(tree, order, meta_only) ==
    IF order = <<>> THEN Ok(<<>>)
    ELSE With(ScanOne(tree, order[1], meta_only), LAMBDA one :
         With(ScanAll(tree, Tail(order), meta_only), LAMBDA rest :
         ScanJoin(one, rest)))

\* load_posts, with `order` the order in which read_dir yields the names
load_posts(tree, order, meta_only) ==
    With(ScanAll(tree, order, meta_only), LAMBDA posts :
        IF posts.status # "Ok" THEN posts ELSE Ok(SortPosts(posts.val)))

\* the orders in which read_dir may yield a set of names
Orders(names) ==
    {o \in [1..Cardinality(names) -> names] :
        \A i, j \in 1..Cardinality(names) : i # j => o[i] # o[j]}

-----------------------------------------------------------------------------
(* Instance::load_page.                                                    *)

\* the path load_page reads, after the rewriting of lines 132-142
PagePath(tree, joined) ==
    IF IsDir(tree, joined) THEN Join(joined, RelPath(<<C_index_md>>))
    ELSE IF UnwrapOrDefault(Extension(joined)) = C_html THEN SetExtension(joined, C_md)
    ELSE IF IsSome(FileName(joined))
    THEN SetFileName(joined, Unwrap(FileName(joined)) \o <<".", "m", "d">>)
    ELSE joined

\* load_page from the load of the rewritten path on
PageOf(page, filepath) ==
    IF page.status # "Ok" THEN page
    ELSE Ok(canonicalize_meta(page.val,
                Defaults(Some(DashesToSpaces(UnwrapOrDefault(FileStem(filepath)))), None)))

load_page(tree, rel_url) ==
    With(Join(pages_folder, rel_url), LAMBDA joined :
        IF ~StartsWith(joined, pages_folder) THEN Err(BadURL)
        ELSE With(PagePath(tree, joined), LAMBDA filepath :
             IF UnwrapOrDefault(Extension(filepath)) # C_md THEN Err(BadPagePath)
             ELSE With(load_entry(tree, "Page", filepath, FALSE), LAMBDA page :
                  PageOf(page, filepath))))

-----------------------------------------------------------------------------
(* web.rs: generate_url, the free function load_posts and                  *)
(* handle_index_page.                                                      *)

\* the index of the first sep of s, 0 when it has none
FirstPos(s, sep) ==
    IF \E i \in 1..Len(s) : s[i] = sep
    THEN CHOOSE i \in 1..Len(s) : s[i] = sep /\ \A j \in 1..(i - 1) : s[j] # sep
    ELSE 0

RECURSIVE SplitN(_, _, _)
\* str::splitn(n, sep): at most n pieces, the last one the remainder
SplitN(s, n, sep) ==
    IF n <= 1 \/ FirstPos(s, sep) = 0 THEN <<s>>
    ELSE <<SubSeq(s, 1, FirstPos(s, sep) - 1)>>
           \o SplitN(Rest(s, FirstPos(s, sep)), n - 1, sep)

\* Entry::generate_url: the url is the route "post" filled with the pieces
\* of the file stem; url_for fails, and unwrap panics, on fewer than four
generate_url(entry) ==
    With(SplitN(UnwrapOrDefault(FileStem(AbsPath(entry.filepath))), 4, "-"), LAMBDA elems :
        IF entry.etype # "Post" THEN Ok(entry)
        ELSE IF Len(elems) < 4 THEN Panic("url_for")
        ELSE Ok([entry EXCEPT !.url = Some(elems)]))

\* a sequence of results as one result: the values, or a panic
AllOk(results) ==
    IF \E i \in 1..Len(results) : results[i].status # "Ok"
    THEN Panic("unwrap")
    ELSE Ok([i \in 1..Len(results) |-> results[i].val])

\* web::load_posts: instance.load_posts(meta_only).unwrap(), then
\* generate_url on every post
web_load_posts(tree, order, meta_only) ==
    With(load_posts(tree, order, meta_only), LAMBDA posts :
        IF posts.status # "Ok" THEN Panic(posts.err)
        ELSE AllOk([i \in 1..Len(posts.val) |-> generate_url(posts.val[i])]))

\* Entry::load_content: load_entry(..).unwrap() of the entry's own file
load_content(tree, entry) ==
    With(load_entry(tree, "Post", AbsPath(entry.filepath), FALSE), LAMBDA loaded :
        IF loaded.status # "Ok" THEN Panic(loaded.err)
        ELSE Ok([entry EXCEPT !.content = loaded.val.content]))

Min(a, b) == IF a <= b THEN a ELSE b

\* a page count that rounds down: post_count / posts_per_page
PageCount_Floor(post_count, posts_per_page) == post_count \div posts_per_page

\* (post_count + posts_per_page - 1) / posts_per_page
PageCount(post_count, posts_per_page) ==
    (post_count + posts_per_page - 1) \div posts_per_page

\* a slice that starts one page late: page_num * posts_per_page
SliceBegin_FromPageNum(page_num, posts_per_page) == page_num * posts_per_page

\* let begin = (page_num - 1) * posts_per_page
SliceBegin(page_num, posts_per_page) == (page_num - 1) * posts_per_page

\* let end = min(post_count, begin + posts_per_page)
SliceEnd(post_count, begin, posts_per_page) == Min(post_count, begin + posts_per_page)

\* prev_url: "" on page 1, the route "index" on page 2, else "index_page"
PrevUrl(page_num) ==
    IF page_num = 1 THEN <<>>
    ELSE IF page_num = 2 THEN <<"index">>
    ELSE <<"index_page", page_num - 1>>

\* next_url: the route "index_page" before the last page, else ""
NextUrl(page_num, page_count) ==
    IF page_num < page_count THEN <<"index_page", page_num + 1>> ELSE <<>>

\* handle_index_page from `let begin` on: posts[begin..end] panics when the
\* bounds are out of range; the posts of the slice get their content
RenderSlice(tree, posts, page_count, page_num, begin, end) ==
    IF begin > end \/ end > Len(posts) THEN Panic("slice index out of range")
    ELSE With(AllOk([i \in 1..(end - begin) |-> load_content(tree, posts[begin + i])]),
              LAMBDA posts_to_render :
         IF posts_to_render.status # "Ok" THEN posts_to_render
         ELSE Ok([posts |-> posts, page_count |-> page_count,
                  begin |-> begin, end |-> end,
                  entries |-> posts_to_render.val,
                  prev_url |-> PrevUrl(page_num),
                  next_url |-> NextUrl(page_num, page_count)]))

\* handle_index_page once the posts are loaded
Paginate(tree, posts, posts_per_page, page_num) ==
    IF posts_per_page = 0 THEN Panic("attempt to divide by zero")
    ELSE With(PageCount(Len(posts), posts_per_page), LAMBDA page_count :
         IF page_num < 1 \/ page_num > page_count
         THEN [status |-> "NotFound",
               val |-> [posts |-> posts, page_count |-> page_count],
               err |-> ""]
         ELSE With(SliceBegin(page_num, posts_per_page), LAMBDA begin :
              RenderSlice(tree, posts, page_count, page_num, begin,
                          SliceEnd(Len(posts), begin, posts_per_page))))

\* handle_index_page.  The response is "Ok" (200, val holds what is handed
\* to the template), "NotFound" (404) or "Panic".  begin and end are the
\* 0-based bounds of posts[begin..end].
handle_index_page(tree, posts_per_page, order, page_num) ==
    With(web_load_posts(tree, order, TRUE), LAMBDA loaded :
        IF loaded.status # "Ok" THEN loaded
        ELSE Paginate(tree, loaded.val, posts_per_page, page_num))

\* the handlers category and tag: the posts whose meta[key] holds name.
\* meta[key].as_vec().unwrap() panics for a post whose meta[key] is no
\* Array; collect() visits every post.  val is what goes to the template
\* under "entries".
archive_by(tree, order, key, name) ==
    With(web_load_posts(tree, order, TRUE), LAMBDA loaded :
        IF loaded.status # "Ok" THEN loaded
        ELSE IF \E i \in 1..Len(loaded.val) :
                   ~IsSome(Get(loaded.val[i].meta, key))
                   \/ Unwrap(Get(loaded.val[i].meta, key)).t # "Array"
        THEN Panic("unwrap on None")
        ELSE Ok(SelectSeq(loaded.val, LAMBDA p :
                   \E j \in 1..Len(Unwrap(Get(p.meta, key)).v) :
                       Unwrap(Get(p.meta, key)).v[j] = YString(name))))

-----------------------------------------------------------------------------
(* The files of the model.                                                 *)

N_test == <<"t", "e", "s", "t">>
N_test_no_content == <<"t", "e", "s", "t", "-", "n", "o", "-", "c", "o", "n", "t", "e", "n", "t">>
N_dated == <<"d", "a", "t", "e", "d">>
N_undated == <<"u", "n", "d", "a", "t", "e", "d">>
N_bad_date == <<"b", "a", "d", "-", "d", "a", "t", "e">>
N_empty_fm == <<"e", "m", "p", "t", "y", "-", "f", "m">>
N_scalar == <<"s", "c", "a", "l", "a", "r">>
N_broken == <<"b", "r", "o", "k", "e", "n">>
N_missing == <<"m", "i", "s", "s", "i", "n", "g">>
N_about_me == <<"a", "b", "o", "u", "t", "-", "m", "e">>
N_secret == <<"s", "e", "c", "r", "e", "t">>
N_passwd == <<"p", "a", "s", "s", "w", "d">>
N_notes_txt == <<"n", "o", "t", "e", "s", ".", "t", "x", "t">>

MdName(stem) == stem \o <<".", "m", "d">>
HtmlName(stem) == stem \o <<".", "h", "t", "m", "l">>

PostNode(filename, lines) == File(Append(posts_folder.comps, filename), lines)
PageNode(rel, lines) == File(pages_folder.comps \o rel, lines)

\* the post files a posts folder is drawn from
PostCandidates ==
    { PostNode(PostFileName(2020, 8, 31, N_test),
               <<"---", "title: Foo bar", "categories: Dev", "tags: [foo, bar]",
                 "---", "", "FOO BAR!", "", "BAZ", "">>),
      PostNode(PostFileName(2020, 12, 27, N_test_no_content), <<>>),
      PostNode(PostFileName(2021, 1, 5, N_dated),
               <<"---", "created: 2021-03-04 10:20:30", "updated: 2021-03-05",
                 "tags: 5", "---", "BAZ">>),
      PostNode(PostFileName(2019, 5, 6, N_undated),
               <<"---", "created: tomorrow", "tags: foo", "categories: [dev, foo]",
                 "---", "FOO BAR!">>),
      PostNode(PostFileName(2020, 2, 30, N_bad_date), <<"BAZ">>),
      PostNode(PostFileName(2020, 1, 1, N_empty_fm), <<"---", "---", "BAZ">>),
      PostNode(PostFileName(2020, 1, 2, N_scalar), <<"---", "just text", "---", "BAZ">>),
      PostNode(Pad(2020, 4) \o <<"-">> \o Pad(8, 2) \o <<"-">> \o Pad(31, 2) \o <<"-">>
                 \o N_test \o <<"x", "m", "d">>, <<"BAZ">>),
      PostNode(<<"U+0663", "0", "2", "0", "-", "0", "1", "-", "0", "1", "-", "x", ".", "m", "d">>,
               <<"BAZ">>),
      PostNode(N_notes_txt, <<"BAZ">>) }

\* the folders of the instance, the pages, and a file outside the pages
BaseTree ==
    { Dir(root_folder.comps), Dir(posts_folder.comps), Dir(pages_folder.comps),
      Dir(<<C_etc>>), File(<<C_etc, N_passwd>>, <<"BAZ">>),
      File(Append(root_folder.comps, MdName(N_secret)), <<"---", "title: Foo bar", "---", "BAZ">>),
      PageNode(<<MdName(N_test)>>,
               <<"---", "title: Foo bar", "tags: [foo, bar]", "categories: Dev",
                 "updated: soon", "---", "", "FOO BAR!", "", "BAZ">>),
      Dir(pages_folder.comps \o <<S_foo>>),
      PageNode(<<S_foo, C_index_md>>, <<"---", "created: 2020-08-31", "---">>),
      PageNode(<<MdName(N_about_me)>>, <<"BAZ", "---", "tags: foo", "---">>),
      PageNode(<<MdName(N_scalar)>>, <<"---", "- item", "---", "BAZ">>),
      PageNode(<<MdName(N_broken)>>, <<"---", "key: [unclosed", "---", "BAZ">>),
      PageNode(<<MdName(N_empty_fm)>>, <<"---", "# comment", "---", "BAZ">>),
      PageNode(<<N_notes_txt>>, <<"BAZ">>) }

\* the relative urls a page request is drawn from
PageUrls ==
    { RelPath(<<N_test>>), RelPath(<<HtmlName(N_test)>>), RelPath(<<S_foo>>),
      RelPath(<<N_about_me>>), RelPath(<<N_scalar>>), RelPath(<<N_broken>>),
      RelPath(<<N_empty_fm>>), RelPath(<<N_missing>>), RelPath(<<N_notes_txt>>),
      RelPath(<<DotDot, N_secret>>), RelPath(<<DotDot>>),
      RelPath(<<S_foo, DotDot, DotDot, HtmlName(N_secret)>>),
      RelPath(<<S_foo, DotDot, N_test>>),
      AbsPath(<<C_etc, N_passwd>>) }

\* the (year, month, day, name) a post request is drawn from
PostKeys ==
    { <<2020, 8, 31, N_test>>, <<2020, 12, 27, N_test_no_content>>,
      <<2021, 1, 5, N_dated>>, <<2019, 5, 6, N_undated>>, <<2020, 2, 30, N_bad_date>>,
      <<2020, 1, 1, N_empty_fm>>, <<2020, 1, 2, N_scalar>>,
      <<2020, 1, 1, N_missing>> }

-----------------------------------------------------------------------------
(* The state machine.  fs and config are what the process finds when it    *)
(* starts; ret is the call being answered and what it returned, and is     *)
(* Idle between two calls.  Calls do not change fs or config.              *)

Call(op, arg, res) == [op |-> op, arg |-> arg, res |-> res]

Idle == Call("none", <<>>, Ok(<<>>))

Init ==
    /\ \E chosen \in SUBSET PostCandidates :
          /\ Cardinality(chosen) <= MaxPosts
          /\ fs = BaseTree \cup chosen
    /\ config \in [posts_per_index_page : 1..MaxPerPage]
    /\ ret = Idle

LoadPost ==
    /\ ret = Idle
    /\ \E key \in PostKeys, meta_only \in BOOLEAN :
          /\ ret' = Call("load_post",
                      [year |-> key[1], month |-> key[2], day |-> key[3],
                       name |-> key[4], meta_only |-> meta_only],
                      load_post(fs, key[1], key[2], key[3], key[4], meta_only))
          /\ UNCHANGED <<fs, config>>

LoadPosts ==
    /\ ret = Idle
    /\ \E order \in Orders(PostsDir(fs)), meta_only \in BOOLEAN :
          /\ ret' = Call("load_posts", [order |-> order, meta_only |-> meta_only],
                      load_posts(fs, order, meta_only))
          /\ UNCHANGED <<fs, config>>

LoadPage ==
    /\ ret = Idle
    /\ \E rel_url \in PageUrls :
          /\ ret' = Call("load_page", [rel_url |-> rel_url], load_page(fs, rel_url))
          /\ UNCHANGED <<fs, config>>

IndexPage ==
    /\ ret = Idle
    /\ \E order \in Orders(PostsDir(fs)), page_num \in 0..MaxPageNum :
          /\ ret' = Call("index_page", [order |-> order, page_num |-> page_num],
                      handle_index_page(fs, config.posts_per_index_page, order, page_num))
          /\ UNCHANGED <<fs, config>>

CategoryPage ==
    /\ ret = Idle
    /\ \E order \in Orders(PostsDir(fs)), name \in {S_foo, S_Dev} :
          /\ ret' = Call("category", [order |-> order, name |-> name],
                      archive_by(fs, order, "categories", name))
          /\ UNCHANGED <<fs, config>>

TagPage ==
    /\ ret = Idle
    /\ \E order \in Orders(PostsDir(fs)), name \in {S_foo} :
          /\ ret' = Call("tag", [order |-> order, name |-> name],
                      archive_by(fs, order, "tags", name))
          /\ UNCHANGED <<fs, config>>

\* the call returns and the process waits for the next one
Return ==
    /\ ret # Idle
    /\ ret' = Idle
    /\ UNCHANGED <<fs, config>>

Next == LoadPost \/ LoadPosts \/ LoadPage \/ IndexPage \/ CategoryPage \/ TagPage \/ Return

Spec == Init /\ [][Next]_vars

-----------------------------------------------------------------------------
(* load_entry and canonicalize_meta on their own: one file whose text is   *)
(* drawn line by line, or whose front-matter block is drawn key by key, is *)
(* loaded, and the entry is canonicalized with defaults that are drawn.    *)

InitEntry ==
    /\ \E lines \in
            (UNION {[1..n -> {Delim, "title: Foo bar", "just text", "- item",
                              "key: [unclosed", "  "}] : n \in 0..MaxLines})
            \cup {<<Delim>> \o block \o <<Delim, body>> :
                     block \in UNION {[1..n -> PairLines] : n \in 0..MaxKeys},
                     body \in {"just text"} \cup RefDefLines} :
          fs = {Dir(root_folder.comps), Dir(pages_folder.comps),
                PageNode(<<MdName(N_test)>>, lines)}
    /\ config = [posts_per_index_page |-> 1]
    /\ ret = Idle

LoadEntry ==
    /\ ret = Idle
    /\ \E node \in fs, meta_only \in BOOLEAN :
          /\ node.kind = "file"
          /\ ret' = Call("load_entry", [filepath |-> node.path, meta_only |-> meta_only],
                      load_entry(fs, "Page", AbsPath(node.path), meta_only))
          /\ UNCHANGED <<fs, config>>

\* canonicalize_meta on the entry the last call returned; the defaults are
\* drawn at the first application and kept for the next
CanonicalizeMeta ==
    /\ ret.op \in {"load_entry", "canonicalize_meta"}
    /\ ret.res.status = "Ok"
    /\ \E defaults \in
            {Defaults(title, created) :
                title \in {None, Some(DashesToSpaces(N_test_no_content))},
                created \in {None, Some(Midnight(2020, 12, 27))}} :
          /\ ret.op = "canonicalize_meta"
                => defaults = ret.arg.defaults /\ ret.arg.times < MaxApply
          /\ ret' = Call("canonicalize_meta",
                      [defaults |-> defaults,
                       times |-> IF ret.op = "canonicalize_meta"
                                 THEN ret.arg.times + 1 ELSE 1,
                       entry |-> ret.res.val],
                      Ok(canonicalize_meta(ret.res.val, defaults)))
          /\ UNCHANGED <<fs, config>>

NextEntry == LoadEntry \/ CanonicalizeMeta \/ Return

SpecEntry == InitEntry /\ [][NextEntry]_vars

-----------------------------------------------------------------------------
(* What the properties below read from a state.                            *)

IsCall(op) == ret.op = op
Returned(op) == ret.op = op /\ ret.res.status = "Ok"

\* the front matter of a file as load_entry hands it to canonicalize_meta
RawMeta(filepath) == load_entry(fs, "Unknown", AbsPath(filepath), TRUE).val.meta
HasKey(meta, k) == IsSome(Get(meta, k))

RECURSIVE Normalize(_, _)
\* where a component list leads once every ".." has taken its parent
Normalize(done, comps) ==
    IF comps = <<>> THEN done
    ELSE IF comps[1] = DotDot
    THEN Normalize(SubSeq(done, 1, Len(done) - 1), Tail(comps))
    ELSE Normalize(Append(done, comps[1]), Tail(comps))

\* the place a relative url names lies under the pages root
StaysInPages(rel_url) ==
    /\ ~rel_url.abs
    /\ StartsWith(AbsPath(Normalize(<<>>, pages_folder.comps \o rel_url.comps)), pages_folder)

UnderPages(filepath) == StartsWith(AbsPath(filepath), pages_folder)

\* C1: load_page answers BadURL to every relative url that leaves the pages
\* root, and no page it returns was read from a file outside the pages root.
C1_TraversalRejected ==
    /\ IsCall("load_page") /\ ~StaysInPages(ret.arg.rel_url)
          => ret.res.status = "Err" /\ ret.res.err = BadURL
    /\ Returned("load_page") => UnderPages(ret.res.val.filepath)

\* the `created` fields of a list of posts
CreatedOf(posts) == [i \in 1..Len(posts) |-> posts[i].created]

\* C2: in the list load_posts returns, every post without `created` comes
\* before every post with one, and the dated posts are in non-increasing
\* order of `created`.
C2_UndatedFirstThenNewestFirst ==
    Returned("load_posts") =>
        LET c == CreatedOf(ret.res.val)
        IN  \A i, j \in 1..Len(c) :
               /\ (~IsSome(c[i]) /\ IsSome(c[j])) => i < j
               /\ (i < j /\ IsSome(c[i]) /\ IsSome(c[j]))
                     => ~TsLess(Unwrap(c[i]), Unwrap(c[j]))

\* the pattern ^(\d{4})-(\d{2})-(\d{2})-(.+)\.md$ with its literal ".md"
MatchesLiteralMd(f) == PostFileNameMatches(f) /\ f[Len(f) - 2] = "."

\* the load of the post file named f, alone
LoadsAlone(f, meta_only) ==
    /\ \A i \in {1, 2, 3, 4, 6, 7, 9, 10} : f[i] \in AsciiDigit
    /\ ValidDate(NumVal(SubSeq(f, 1, 4)), NumVal(SubSeq(f, 6, 7)), NumVal(SubSeq(f, 9, 10)))
    /\ load_entry(fs, "Post", Join(posts_folder, RelPath(<<f>>)), meta_only).status = "Ok"

\* the files of the posts folder that match the pattern and load
Loadable(meta_only) ==
    {f \in PostsDir(fs) : MatchesLiteralMd(f) /\ LoadsAlone(f, meta_only)}

FileNameOf(entry) == entry.filepath[Len(entry.filepath)]

\* C3: load_posts on a readable posts folder returns a list, whatever the
\* files are: a matching file that does not load is left out and every
\* matching file that loads is in the list.
C3_ScanNeverAborts ==
    IsCall("load_posts") =>
        /\ ret.res.status = "Ok"
        /\ \A f \in Loadable(ret.arg.meta_only) :
              \E i \in 1..Len(ret.res.val) : FileNameOf(ret.res.val[i]) = f

\* C4: load_posts returns exactly one entry for each file whose name
\* matches the pattern with a literal ".md" and that loads, and no file is
\* in the list twice.
C4_OneEntryPerMatchingFile ==
    Returned("load_posts") =>
        LET posts == ret.res.val
        IN  /\ {FileNameOf(posts[i]) : i \in 1..Len(posts)} = Loadable(ret.arg.meta_only)
            /\ \A i, j \in 1..Len(posts) :
                  FileNameOf(posts[i]) = FileNameOf(posts[j]) => i = j

\* what the claim C5 asks of the value under key, given the front matter raw
ArrayAsClaimed(raw, meta, key) ==
    /\ HasKey(meta, key)
    /\ Unwrap(Get(meta, key)).t = "Array"
    /\ ~HasKey(raw, key) => Unwrap(Get(meta, key)).v = <<>>
    /\ (HasKey(raw, key) /\ Unwrap(Get(raw, key)).t = "String")
          => Unwrap(Get(meta, key)).v = <<Unwrap(Get(raw, key))>>
    /\ (HasKey(raw, key) /\ Unwrap(Get(raw, key)).t = "Array")
          => Get(meta, key) = Get(raw, key)

\* C5: after every successful load_post or load_page, "tags" and
\* "categories" are present and are Arrays: a string has become the array
\* of that string, an absent key the empty array, an array is as it was.
C5_TagsAndCategoriesAreArrays ==
    (Returned("load_post") \/ Returned("load_page")) =>
        /\ ArrayAsClaimed(RawMeta(ret.res.val.filepath), ret.res.val.meta, "tags")
        /\ ArrayAsClaimed(RawMeta(ret.res.val.filepath), ret.res.val.meta, "categories")

\* a string of the form DDDD-DD-DD
DateShaped(s) ==
    /\ Len(s) >= 10
    /\ \A i \in {1, 2, 3, 4, 6, 7, 9, 10} : s[i] \in AsciiDigit
    /\ s[5] = "-" /\ s[8] = "-"

\* a string of the form DD:DD:DD
TimeShaped(s) ==
    /\ Len(s) = 8
    /\ \A i \in {1, 2, 4, 5, 7, 8} : s[i] \in AsciiDigit
    /\ s[3] = ":" /\ s[6] = ":"

\* the timestamp a valid YYYY-MM-DD or YYYY-MM-DD HH:MM:SS string names,
\* as Some(..), and None for any other string
TimestampNamed(s) ==
    IF ~DateShaped(s) THEN None
    ELSE LET y == NumVal(SubSeq(s, 1, 4))
             m == NumVal(SubSeq(s, 6, 7))
             d == NumVal(SubSeq(s, 9, 10))
             t == Rest(s, 11)
         IN  IF ~ValidDate(y, m, d) THEN None
             ELSE IF Len(s) = 10 THEN Some(<<y, m, d, 0, 0, 0>>)
             ELSE IF Len(s) = 19 /\ s[11] = " " /\ TimeShaped(t)
                     /\ NumVal(SubSeq(t, 1, 2)) <= 23 /\ NumVal(SubSeq(t, 4, 5)) <= 59
                     /\ NumVal(SubSeq(t, 7, 8)) <= 59
             THEN Some(<<y, m, d, NumVal(SubSeq(t, 1, 2)), NumVal(SubSeq(t, 4, 5)),
                         NumVal(SubSeq(t, 7, 8))>>)
             ELSE None

\* the front matter of the entry returned holds a String under key
RawString(key) ==
    /\ HasKey(RawMeta(ret.res.val.filepath), key)
    /\ Unwrap(Get(RawMeta(ret.res.val.filepath), key)).t = "String"

\* C6: when the front matter has `created` as a string, then after
\* canonicalization a valid string has given the `created` field and the
\* canonical string under "created", and an invalid one an unset field and
\* the empty string, whether or not `updated` is there.
C6_CreatedParsedAndNormalized ==
    ((Returned("load_post") \/ Returned("load_page")) /\ RawString("created")) =>
        LET str == Unwrap(Get(RawMeta(ret.res.val.filepath), "created")).v
            want == TimestampNamed(str)
            meta == ret.res.val.meta
        IN  /\ ret.res.val.created = want
            /\ HasKey(meta, "created")
            /\ Unwrap(Get(meta, "created")) =
                  YString(IF IsSome(want) THEN FormatTs(Unwrap(want)) ELSE <<>>)

\* C7: when the front matter has no `updated` key, then after
\* canonicalization "updated" is present and is the empty string, and the
\* `updated` field is unset.
C7_UpdatedAbsentGivesEmptyString ==
    ((Returned("load_post") \/ Returned("load_page"))
        /\ ~HasKey(RawMeta(ret.res.val.filepath), "updated")) =>
        /\ Get(ret.res.val.meta, "updated") = Some(YString(<<>>))
        /\ ret.res.val.updated = None

\* a successful load_post of a file whose front matter has no `created`
NoCreatedKeyLoaded ==
    Returned("load_post") /\ ~HasKey(RawMeta(ret.res.val.filepath), "created")

\* C8: a successful load_post(year, month, day, slug, _) of a file whose
\* front matter has no `created` key returns an entry whose `created` is
\* midnight of (year, month, day).
C8_DefaultCreatedIsMidnight ==
    NoCreatedKeyLoaded =>
        ret.res.val.created = Some(<<ret.arg.year, ret.arg.month, ret.arg.day, 0, 0, 0>>)

\* C8 happens: such a post was loaded from a file that has front matter
C8_Witness ==
    /\ NoCreatedKeyLoaded
    /\ RawMeta(ret.res.val.filepath) # EmptyHash
    /\ ret.arg.day = 31

\* the list of posts the index-page handler got for the request of this
\* state, as Ok(posts), or the panic that ended the request before
PostsOfRequest == web_load_posts(fs, ret.arg.order, TRUE)

\* the handler got its posts and answered 200 or 404
Answered == IsCall("index_page") /\ ret.res.status \in {"Ok", "NotFound"}

\* k is ceil(n / p)
IsCeilDiv(k, n, p) == k >= 0 /\ k * p >= n /\ (k = 0 \/ (k - 1) * p < n)

\* what C9 asks of the answer res to a request for page page_num when the
\* handler got post_count posts
AnswerAsClaimed(res, page_num, post_count) ==
    /\ res.status \in {"Ok", "NotFound"}
    /\ IsCeilDiv(res.val.page_count, post_count, config.posts_per_index_page)
    /\ res.status = "NotFound" <=> (page_num < 1 \/ page_num > res.val.page_count)
    /\ res.status = "Ok"
          => /\ 0 <= res.val.begin
             /\ res.val.begin <= res.val.end
             /\ res.val.end <= post_count

\* C9: with N posts and page size P > 0 the handler works with
\* page_count = ceil(N / P); it answers 404 exactly when page_num < 1 or
\* page_num > page_count, and otherwise answers 200 with slice bounds
\* inside the list.
C9_OutOfRangeExactly ==
    IsCall("index_page") =>
        With(PostsOfRequest, LAMBDA loaded :
            (loaded.status = "Ok" /\ config.posts_per_index_page > 0)
                => AnswerAsClaimed(ret.res, ret.arg.page_num, Len(loaded.val)))

\* C9 happens: a page past the last one got 404 although there are posts
C9_Witness ==
    /\ Answered /\ ret.res.status = "NotFound"
    /\ Len(ret.res.val.posts) = 3 /\ ret.arg.page_num = 3 /\ ret.res.val.page_count = 2

RECURSIVE ConcatPages(_, _, _, _)
\* Some(the slices of the pages k..page_count, one after the other, as the
\* handler cuts them), or None when one of these pages is not answered 200
ConcatPages(posts, p, k, page_count) ==
    IF k > page_count THEN Some(<<>>)
    ELSE With(Paginate(fs, posts, p, k), LAMBDA page :
         IF page.status # "Ok" THEN None
         ELSE With(ConcatPages(posts, p, k + 1, page_count), LAMBDA rest :
              IF ~IsSome(rest) THEN None
              ELSE Some(SubSeq(posts, page.val.begin + 1, page.val.end) \o Unwrap(rest))))

\* an entry without the content load_content gave it
WithoutContent(entry) == [entry EXCEPT !.content = <<>>]

\* C10: the slices of the pages 1..page_count are contiguous, do not
\* overlap and make up the sorted list; page k is
\* posts[(k-1)*P .. min(N, k*P)] and is not empty.
C10_SlicesPartitionTheList ==
    Answered =>
        LET posts == ret.res.val.posts
            p == config.posts_per_index_page
            k == ret.arg.page_num
        IN  /\ ConcatPages(posts, p, 1, ret.res.val.page_count) = Some(posts)
            /\ ret.res.status = "Ok" =>
                  /\ ret.res.val.begin = (k - 1) * p
                  /\ ret.res.val.end = (IF k * p < Len(posts) THEN k * p ELSE Len(posts))
                  /\ ret.res.val.begin < ret.res.val.end
                  /\ [i \in 1..Len(ret.res.val.entries) |->
                         WithoutContent(ret.res.val.entries[i])]
                       = SubSeq(posts, ret.res.val.begin + 1, ret.res.val.end)

\* C10 happens: the last page of two was rendered and is shorter than the
\* page size
C10_Witness ==
    /\ Answered /\ ret.res.status = "Ok"
    /\ ret.arg.page_num = 2 /\ ret.res.val.page_count = 2
    /\ ret.res.val.end - ret.res.val.begin = 1
    /\ config.posts_per_index_page = 2

\* the Array under key in meta has an element that is the string name
HoldsName(meta, key, name) ==
    /\ HasKey(meta, key)
    /\ Unwrap(Get(meta, key)).t = "Array"
    /\ \E j \in 1..Len(Unwrap(Get(meta, key)).v) :
          Unwrap(Get(meta, key)).v[j] = YString(name)

\* C11: for any list of posts load_posts produced and any name, the
\* category (tag) listing answers, without abort, with exactly the posts
\* whose "categories" ("tags") Array holds the name as a whole string, in
\* the order of the list; when no post matches the listing is empty.
C11_ListingIsTheMatchingPosts ==
    (IsCall("category") \/ IsCall("tag")) =>
        With(PostsOfRequest, LAMBDA loaded :
            loaded.status = "Ok" =>
                /\ ret.res.status = "Ok"
                /\ ret.res.val =
                      SelectSeq(loaded.val, LAMBDA p :
                          HoldsName(p.meta,
                                    IF ret.op = "category" THEN "categories" ELSE "tags",
                                    ret.arg.name)))

\* the lines of the file a load_entry call was asked to load
FileLines == NodeAt(fs, ret.arg.filepath).lines

\* the index of the line that closes the front matter of lines: the first
\* "---" after a first line "---"; 0 when the text has no front matter
ClosingAt(lines) ==
    IF Len(lines) >= 2 /\ lines[1] = "---" /\ \E i \in 2..Len(lines) : lines[i] = "---"
    THEN CHOOSE i \in 2..Len(lines) :
             lines[i] = "---" /\ \A j \in 2..(i - 1) : lines[j] # "---"
    ELSE 0

\* the lines strictly between the first line and the closing line
BlockOf(lines) == SubSeq(lines, 2, ClosingAt(lines) - 1)

\* every line after the closing line; the whole text without front matter
BodyOf(lines) ==
    IF ClosingAt(lines) = 0 THEN lines
    ELSE SubSeq(lines, ClosingAt(lines) + 1, Len(lines))

\* the block is valid YAML whose value is a Mapping
IsMapping(loaded) == loaded.ok /\ loaded.docs # <<>> /\ loaded.docs[1].t = "Hash"

\* C12: load_entry on an existing file with a delimited front-matter block
\* returns an error or an entry whose metadata is a Mapping, and never
\* aborts: a block that is not valid YAML, or whose value is not a Mapping,
\* or that holds no document, gives an error; a file without front matter,
\* or an empty file, gives an entry whose metadata is the empty Mapping.
C12_ErrorOrMapping ==
    IsCall("load_entry") =>
        /\ ret.res.status \in {"Ok", "Err"}
        /\ ClosingAt(FileLines) # 0 =>
              /\ ret.res.status = "Ok" => ret.res.val.meta.t = "Hash"
              /\ ~IsMapping(YamlLoad(BlockOf(FileLines))) => ret.res.status = "Err"
        /\ ClosingAt(FileLines) = 0 =>
              ret.res.status = "Ok" /\ ret.res.val.meta = EmptyHash

\* the path the rules of C13 resolve for the joined path: index.md inside
\* a directory, ".md" for ".html", ".md" appended to a name that has no
\* extension, and the path as it is for a name with another extension
RuledPath(joined) ==
    IF IsDir(fs, joined) THEN Join(joined, RelPath(<<C_index_md>>))
    ELSE IF Extension(joined) = Some(C_html) THEN SetExtension(joined, C_md)
    ELSE IF IsSome(FileName(joined)) /\ ~IsSome(Extension(joined))
    THEN SetFileName(joined, Unwrap(FileName(joined)) \o <<".", "m", "d">>)
    ELSE joined

\* C13: for a relative url that stays within the pages root, load_page
\* resolves one path by the first rule that applies (directory -> index.md
\* in it; ".html" -> ".md"; no extension -> ".md" appended) and reads that
\* file; when the path after the rules has not the extension "md", as for
\* a url ending in ".txt", it answers BadURL and reads no file.
C13_ResolvedByFirstRule ==
    (IsCall("load_page") /\ StaysInPages(ret.arg.rel_url)) =>
        With(RuledPath(Join(pages_folder, ret.arg.rel_url)), LAMBDA path :
            IF Extension(path) # Some(C_md)
            THEN ret.res.status = "Err" /\ ret.res.err \in {BadURL, BadPagePath}
            ELSE /\ ret.res.status = "Ok"
                    => Some(ret.res.val.filepath) = Canonicalize(fs, path)
                 /\ ret.res.err \notin {BadURL, BadPagePath}
                 /\ ret.res.status = load_entry(fs, "Page", path, FALSE).status)

\* C14: after every successful load_post or load_page "title" is present
\* in the metadata; a title the front matter supplies is left as it is,
\* and for a post without a `title` key the title is the slug with every
\* '-' replaced by a space.
C14_TitlePresentDefaultFromSlug ==
    (Returned("load_post") \/ Returned("load_page")) =>
        With(RawMeta(ret.res.val.filepath), LAMBDA raw :
            /\ HasKey(ret.res.val.meta, "title")
            /\ HasKey(raw, "title") => Get(ret.res.val.meta, "title") = Get(raw, "title")
            /\ (IsCall("load_post") /\ ~HasKey(raw, "title")) =>
                  Unwrap(Get(ret.res.val.meta, "title")) =
                      YString([i \in 1..Len(ret.arg.name) |->
                                  IF ret.arg.name[i] = "-" THEN " " ELSE ret.arg.name[i]]))

\* C14 happens: the post test-no-content was loaded and got its title from
\* the slug
C14_Witness ==
    /\ Returned("load_post")
    /\ ret.arg.name = N_test_no_content
    /\ ~HasKey(RawMeta(ret.res.val.filepath), "title")
    /\ Unwrap(Get(ret.res.val.meta, "title")).v # ret.arg.name

\* what a metadata-only load returns: no content, and the metadata of the
\* full load of the same file
MetaOnlyAsClaimed ==
    (Returned("load_entry") /\ ret.arg.meta_only) =>
        /\ ret.res.val.content = <<>>
        /\ ret.res.val.meta
              = load_entry(fs, "Page", AbsPath(ret.arg.filepath), FALSE).val.meta

C16_SplitAtFirstClosingLine ==
    IsCall("load_entry") =>
        IF ClosingAt(FileLines) # 0
        THEN IsMapping(YamlLoad(BlockOf(FileLines))) =>
                /\ ret.res.status = "Ok"
                /\ ret.res.val.meta = YamlLoad(BlockOf(FileLines)).docs[1]
                /\ ~ret.arg.meta_only =>
                      ret.res.val.content = MarkdownToHtml(TrimLines(BodyOf(FileLines)))
        ELSE /\ ret.res.status = "Ok"
             /\ ret.res.val.meta = EmptyHash
             /\ ~ret.arg.meta_only =>
                   ret.res.val.content = MarkdownToHtml(TrimLines(FileLines))

\* C16 happens: a file with a second "---" after the closing one was
\* loaded in full, and that line is in the body
C16_Witness ==
    /\ Returned("load_entry") /\ ~ret.arg.meta_only
    /\ FileLines = <<"---", "title: Foo bar", "---", "---">>
    /\ ret.res.val.content = <<"---">>

RECURSIVE SameYaml(_, _)
\* the Yaml values a and b are equal: the same variant, holding equal
\* scalars, or elements or pairs that are equal one by one in order
SameYaml(a, b) ==
    /\ a.t = b.t
    /\ IF a.t = "Array"
       THEN /\ Len(a.v) = Len(b.v)
            /\ \A i \in 1..Len(a.v) : SameYaml(a.v[i], b.v[i])
       ELSE IF a.t = "Hash"
       THEN /\ Len(a.v) = Len(b.v)
            /\ \A i \in 1..Len(a.v) :
                   a.v[i][1] = b.v[i][1] /\ SameYaml(a.v[i][2], b.v[i][2])
       ELSE a.v = b.v

\* C17: canonicalize_meta succeeds for every metadata Mapping and every
\* choice of defaults, and a second application with the same defaults
\* leaves the metadata and the fields `created` and `updated` as the first
\* application left them.
C17_CanonicalizeIdempotentTotal ==
    IsCall("canonicalize_meta") =>
        /\ ret.res.status = "Ok"
        /\ ret.arg.times >= 2 =>
              /\ SameYaml(ret.res.val.meta, ret.arg.entry.meta)
              /\ ret.res.val.created = ret.arg.entry.created
              /\ ret.res.val.updated = ret.arg.entry.updated

\* C17 happens: canonicalize_meta was applied a second time to an entry
\* with a string under "tags" made an Array, a parsed `created` and a
\* default title
C17_Witness ==
    /\ IsCall("canonicalize_meta") /\ ret.arg.times = 2
    /\ IsSome(ret.res.val.created)
    /\ HasKey(RawMeta(ret.res.val.filepath), "created")
    /\ HasKey(RawMeta(ret.res.val.filepath), "tags")
    /\ SameYaml(Unwrap(Get(RawMeta(ret.res.val.filepath), "tags")), YString(S_foo))
    /\ HasKey(ret.res.val.meta, "title")
    /\ SameYaml(Unwrap(Get(ret.res.val.meta, "title")), YString(DashesToSpaces(N_test_no_content)))

====
